---------------------------- MODULE Spec2Model ----------------------------
(***************************************************************************)
(* FoilCreator.py: the NACA 4-digit airfoil contour generator              *)
(* (generate_naca_airfoil_coordinates), the section placement schedule     *)
(* (get_rotate_angle, get_scale, get_skew_angle, end_point) and the driver *)
(* (run).                                                                  *)
(*                                                                         *)
(* Python floats are modelled as fixed-point integers: the float v is the  *)
(* integer v * S, products and quotients are rounded toward zero (so the   *)
(* arithmetic is sign-symmetric, as IEEE rounding is).  The math library   *)
(* functions are computed by range reduction and truncated series.         *)
(***************************************************************************)
EXTENDS Integers, Sequences, FiniteSets

\* ------------------------------------------------------------ bounds

\* Longest code string handed to generate_naca_airfoil_coordinates.
MaxLen == 5

\* Largest num_points handed to generate_naca_airfoil_coordinates.
MaxPoints == 4

\* Largest fraction (in units of 1/S) handed to get_scale directly.
MaxFraction == 12000

\* Characters a code string is drawn from: digits, and the non-digits
\* Python's int() treats differently (white space, a sign, a letter).
Chars == {"0", "1", "2", "9", " ", "-", "a"}

\* ------------------------------------------------------------ floats

\* The fixed-point unit: the float 1.0.
S == 10000

Abs(a) == IF a < 0 THEN -a ELSE a

Sgn(a) == IF a < 0 THEN -1 ELSE IF a > 0 THEN 1 ELSE 0

\* float * float
FMul(a, b) ==
  LET q == (Abs(a) * Abs(b)) \div S
  IN  IF (a < 0) # (b < 0) THEN -q ELSE q

\* float / float, for b # 0 (Python raises ZeroDivisionError otherwise; the
\* callers test for it)
FDiv(a, b) ==
  LET q == (Abs(a) * S) \div Abs(b)
  IN  IF (a < 0) # (b < 0) THEN -q ELSE q

\* float / int, for n # 0
IDiv(a, n) ==
  LET q == Abs(a) \div Abs(n)
  IN  IF (a < 0) # (n < 0) THEN -q ELSE q

\* A value of a Python expression: a float, or the exception it raised.
Float(v) == [kind |-> "float", val |-> v]

NaN == [kind |-> "nan", val |-> 0]

Raise(exc) == [kind |-> exc, val |-> 0]

RECURSIVE SqrtSearch(_, _, _)
SqrtSearch(n, lo, hi) ==
  IF lo >= hi THEN lo
  ELSE LET mid == (lo + hi + 1) \div 2
       IN  IF mid * mid <= n THEN SqrtSearch(n, mid, hi)
           ELSE SqrtSearch(n, lo, mid - 1)

\* The largest r with r * r <= n.
ISqrt(n) == SqrtSearch(n, 0, 46340)

\* math.sqrt of a negative float, as the C library computes it: a quiet NaN.
math_sqrt_nan(v) == IF v < 0 THEN NaN ELSE Float(ISqrt(v * S))

\* math.sqrt: raises ValueError ("math domain error") on a negative argument.
math_sqrt(v) == IF v < 0 THEN Raise("ValueError") ELSE Float(ISqrt(v * S))

\* math.pi
Pi == 31416

HalfPi == Pi \div 2

\* cos on [0, pi/2]: 1 - b^2/2! + b^4/4! - b^6/6! + b^8/8!
CosSeries(b) ==
  LET b2 == FMul(b, b)
      t1 == IDiv(b2, 2)
      t2 == IDiv(FMul(t1, b2), 12)
      t3 == IDiv(FMul(t2, b2), 30)
      t4 == IDiv(FMul(t3, b2), 56)
  IN  S - t1 + t2 - t3 + t4

\* sin on [-pi/2, pi/2]: a - a^3/3! + a^5/5! - a^7/7! + a^9/9!
SinSeries(a) ==
  LET a2 == FMul(a, a)
      u1 == IDiv(FMul(a, a2), 6)
      u2 == IDiv(FMul(u1, a2), 20)
      u3 == IDiv(FMul(u2, a2), 42)
      u4 == IDiv(FMul(u3, a2), 72)
  IN  a - u1 + u2 - u3 + u4

\* math.cos: even, reduced to [0, pi], mirrored about pi/2.
math_cos(a) ==
  LET r == Abs(a) % (2 * Pi)
      b == IF r > Pi THEN 2 * Pi - r ELSE r
  IN  IF b <= HalfPi THEN CosSeries(b) ELSE -CosSeries(Pi - b)

\* math.sin: odd, reduced to [-pi, pi], mirrored about +-pi/2.
math_sin(a) ==
  LET r == Abs(a) % (2 * Pi)
      b == IF r > Pi THEN r - 2 * Pi ELSE r
      c == IF b > HalfPi THEN Pi - b ELSE IF b < -HalfPi THEN -Pi - b ELSE b
  IN  Sgn(a) * SinSeries(c)

\* atan(x) = 2 * atan(x / (1 + sqrt(1 + x^2)))
AtanHalve(x) == FDiv(x, S + ISqrt((S + FMul(x, x)) * S))

\* atan near 0: x - x^3/3 + x^5/5 - x^7/7
AtanSeries(x) ==
  LET x2 == FMul(x, x)
      x3 == FMul(x, x2)
      x5 == FMul(x3, x2)
      x7 == FMul(x5, x2)
  IN  x - IDiv(x3, 3) + IDiv(x5, 5) - IDiv(x7, 7)

AtanUnit(x) == 4 * AtanSeries(AtanHalve(AtanHalve(x)))

\* math.atan: odd; |x| > 1 reduced by atan(x) = +-pi/2 - atan(1/x).
math_atan(x) ==
  IF Abs(x) <= S THEN AtanUnit(x)
  ELSE Sgn(x) * HalfPi - AtanUnit(FDiv(S, x))

\* x ** k for a small positive integer k
RECURSIVE FPow(_, _)
FPow(x, k) == IF k = 1 THEN x ELSE FMul(FPow(x, k - 1), x)


\* ------------------------------------------------------------ int()

Digits == {"0", "1", "2", "3", "4", "5", "6", "7", "8", "9"}

DigitVal(c) ==
  CASE c = "0" -> 0 [] c = "1" -> 1 [] c = "2" -> 2 [] c = "3" -> 3
    [] c = "4" -> 4 [] c = "5" -> 5 [] c = "6" -> 6 [] c = "7" -> 7
    [] c = "8" -> 8 [] c = "9" -> 9

IsSpace(c) == c \in {" ", "\t", "\n"}

RECURSIVE LStrip(_)
LStrip(s) == IF s # <<>> /\ IsSpace(Head(s)) THEN LStrip(Tail(s)) ELSE s

RECURSIVE RStrip(_)
RStrip(s) ==
  IF s # <<>> /\ IsSpace(s[Len(s)]) THEN RStrip(SubSeq(s, 1, Len(s) - 1)) ELSE s

\* The digits of an integer literal: digits, single underscores between them.
IsDigitBody(b) ==
  /\ b # <<>>
  /\ \A k \in 1..Len(b) : b[k] \in Digits \cup {"_"}
  /\ b[1] # "_"
  /\ b[Len(b)] # "_"
  /\ \A k \in 1..(Len(b) - 1) : ~(b[k] = "_" /\ b[k + 1] = "_")

RECURSIVE DigitsVal(_)
DigitsVal(b) ==
  IF b = <<>> THEN 0
  ELSE LET init == SubSeq(b, 1, Len(b) - 1)
           last == b[Len(b)]
       IN  IF last = "_" THEN DigitsVal(init)
           ELSE 10 * DigitsVal(init) + DigitVal(last)

\* int(str): surrounding white space is stripped, one sign is accepted, and
\* anything else than an integer literal raises ValueError.
int(s) ==
  LET w    == RStrip(LStrip(s))
      sign == IF w # <<>> /\ w[1] \in {"+", "-"} THEN w[1] ELSE ""
      body == IF sign = "" THEN w ELSE Tail(w)
  IN  IF IsDigitBody(body)
      THEN [kind |-> "int",
            val  |-> IF sign = "-" THEN -DigitsVal(body) ELSE DigitsVal(body)]
      ELSE Raise("ValueError")

\* ------------------------------------------------------------ generator

\* range(n) that stops one value early
range_short(n) == [k \in 1..(IF n > 1 THEN n - 1 ELSE 0) |-> k - 1]

\* range(n), as the list of its values
range(n) == [k \in 1..(IF n > 0 THEN n ELSE 0) |-> k - 1]

\* s[::-1]
RECURSIVE Reverse(_)
Reverse(s) == IF s = <<>> THEN <<>> ELSE Append(Reverse(Tail(s)), Head(s))

\* The decoded parameters m, p, t of a code, or the exception raised.
Decode(naca) ==
  IF Len(naca) # 4 THEN Raise("ValueError")
  ELSE LET d1 == int(SubSeq(naca, 1, 1))
           d2 == int(SubSeq(naca, 2, 2))
           d34 == int(SubSeq(naca, 3, 4))
       IN  IF d1.kind # "int" THEN d1
           ELSE IF d2.kind # "int" THEN d2
           ELSE IF d34.kind # "int" THEN d34
           ELSE [kind |-> "ok",
                 m |-> (d1.val * S) \div 100,
                 p |-> (d2.val * S) \div 10,
                 t |-> IDiv(d34.val * S, 100)]

\* The chord fraction of the reference point.
x_lift == 5000

\* The camber line at the reference point.
LiftY(x, m, p) ==
  IF x < p /\ p # 0
  THEN FMul(FDiv(m, FMul(p, p)), FMul(2 * p, x) - FMul(x, x))
  ELSE IF p # S
  THEN FMul(FDiv(m, FMul(S - p, S - p)),
            (S - 2 * p) + FMul(2 * p, x) - FMul(x, x))
  ELSE 0

\* The chord position of sample i of n, or ZeroDivisionError.
SampleX(i, n) ==
  IF n - 1 = 0 THEN Raise("ZeroDivisionError")
  ELSE LET beta == IDiv(Pi * i, n - 1)
       IN  Float(FMul(S \div 2, S - math_cos(beta)))

\* The camber line and its slope at x.
Camber(x, m, p) ==
  IF x < p /\ p # 0
  THEN [y_c    |-> FMul(FDiv(m, FMul(p, p)), FMul(2 * p, x) - FMul(x, x)),
        dyc_dx |-> FMul(FDiv(2 * m, FMul(p, p)), p - x)]
  ELSE IF p # S
  THEN [y_c    |-> FMul(FDiv(m, FMul(S - p, S - p)),
                        (S - 2 * p) + FMul(2 * p, x) - FMul(x, x)),
        dyc_dx |-> FMul(FDiv(2 * m, FMul(S - p, S - p)), p - x)]
  ELSE [y_c |-> 0, dyc_dx |-> 0]

\* The half thickness at x.
Thickness(x, t) ==
  FMul(5 * t,
       FMul(2969, math_sqrt(x).val)
       - FMul(1260, x)
       - FMul(FMul(3516, x), x)
       + FMul(2843, FPow(x, 3))
       - FMul(1015, FPow(x, 4)))

\* The upper surface point of the sample at x, moved to the reference point.
UpperPoint(x, m, p, t, xl, yl) ==
  LET c     == Camber(x, m, p)
      theta == math_atan(c.dyc_dx)
      y_t   == Thickness(x, t)
  IN  <<(x - FMul(y_t, math_sin(theta))) - xl,
        (c.y_c + FMul(y_t, math_cos(theta))) - yl>>

\* The lower surface point with the thickness added instead of subtracted.
LowerPoint_added(x, m, p, t, xl, yl) ==
  LET c     == Camber(x, m, p)
      theta == math_atan(c.dyc_dx)
      y_t   == Thickness(x, t)
  IN  <<(x + FMul(y_t, math_sin(theta))) - xl,
        (c.y_c + FMul(y_t, math_cos(theta))) - yl>>

\* The lower surface point of the sample at x, moved to the reference point.
LowerPoint(x, m, p, t, xl, yl) ==
  LET c     == Camber(x, m, p)
      theta == math_atan(c.dyc_dx)
      y_t   == Thickness(x, t)
  IN  <<(x + FMul(y_t, math_sin(theta))) - xl,
        (c.y_c - FMul(y_t, math_cos(theta))) - yl>>

\* The contour with the lower surface left in sampling order.
Contour_unreversed(upper, lower) == upper \o lower

\* The contour with the reversed lower surface put first.
Contour_lower_first(upper, lower) == Reverse(lower) \o upper

\* The closed contour: the upper surface, then the lower surface reversed.
Contour(upper, lower) == upper \o Reverse(lower)

\* ------------------------------------------------------------ placement

get_rotate_angle(fraction) ==
  LET start == S \div 6
  IN  FMul(Pi, start) + FMul(FMul(fraction, Pi), S \div 2 - start)

all_scale == 12000

max_scale_fraction == 6000

\* The taper below the peak.
ScaleParabola(fraction) ==
  FMul(all_scale, -FPow(fraction - max_scale_fraction, 2) + S)

\* The argument with the span of the ellipse taken from the wrong side.
ScaleEllipseArg_span(fraction) ==
  S - FPow(FMul(FDiv(S, max_scale_fraction),
                fraction - max_scale_fraction), 2)

\* The argument of the square root above the peak.
ScaleEllipseArg(fraction) ==
  S - FPow(FMul(FDiv(S, S - max_scale_fraction),
                fraction - max_scale_fraction), 2)

\* The taper above the peak, or the exception math.sqrt raised.
ScaleEllipse(fraction) ==
  LET r == math_sqrt(ScaleEllipseArg(fraction))
  IN  IF r.kind = "float" THEN Float(FMul(all_scale, r.val)) ELSE r

get_scale(fraction) ==
  IF fraction < max_scale_fraction THEN Float(ScaleParabola(fraction))
  ELSE ScaleEllipse(fraction)

get_skew_angle(fraction) == FMul(IDiv(Pi * 1, 2), fraction)

\* The tip point end_point adds to its sketch.
EndPoint(r) ==
  LET end_skew_angle == get_skew_angle(S)
  IN  <<0, r * S - math_cos(end_skew_angle) * r, -(math_sin(end_skew_angle) * r)>>

\* ------------------------------------------------------------ driver

sketch_num == 50

skew_r == 2

\* The first station index run builds a section for.
first_station == 6

\* The code and the point density run asks for.
run_naca == <<"2", "4", "1", "2">>

run_num_points == 20

\* The station indices run's loop visits.
RunStations == range(sketch_num)

\* `continue` for the first stations, one station too many
Skipped_late(i) == i <= first_station

\* `continue` for the first stations
Skipped(i) == i < first_station

\* The sketch create_sketch fills: the fitted spline through the scaled
\* points, moved by rotate_sketch and then by skew_sketch.
CreateSketch(i, coords, rotate_angle, scale, skew_angle, r) ==
  [label  |-> "Airfoil Section",
   index  |-> i,
   spline |-> [j \in 1..Len(coords) |->
                 <<FMul(coords[j][1], scale), FMul(coords[j][2], scale), 0>>],
   points |-> <<>>,
   moves  |-> << [angle |-> rotate_angle, axis |-> <<0, 0, 1>>,
                  origin |-> <<0, 0, 0>>],
                 [angle |-> skew_angle, axis |-> <<1, 0, 0>>,
                  origin |-> <<0, r, 0>>] >>]

\* A sketch as sketches.add returns it, named.
EmptySketch(label, i) ==
  [label |-> label, index |-> i, spline |-> <<>>, points |-> <<>>,
   moves |-> <<>>]

\* ------------------------------------------------------------ state

VARIABLES
  entry,           \* the function called from outside
  pc,              \* the statement about to run
  naca,            \* generate_naca_airfoil_coordinates: the code
  num_points,      \*   the samples per surface
  m, p, t,         \*   the decoded parameters
  y_lift,          \*   the camber at the reference point
  k,               \* the position of the running loop in its range
  x_coords,        \*   the sampled chord positions
  y_c, dyc_dx,     \*   the camber and its slope at the last sample
  upper_points,
  lower_points,
  airfoil_coords,  \*   the contour returned
  error,           \* the exception raised, "none" if none
  fraction,        \* get_scale's argument; run's station fraction
  scale_result,    \* what get_scale returned or raised
  sketches,        \* run: the sketches of the root component
  loft_profiles,   \*   the profiles collected for the loft
  loft_sections,   \*   the sections of the loft input
  lofts            \*   the loft features added

vars ==
  << entry, pc, naca, num_points, m, p, t, y_lift, k, x_coords, y_c, dyc_dx,
     upper_points, lower_points, airfoil_coords, error, fraction,
     scale_result, sketches, loft_profiles, loft_sections, lofts >>

genVars ==
  << naca, num_points, m, p, t, y_lift, x_coords, y_c, dyc_dx, upper_points,
     lower_points, airfoil_coords >>

runVars == << sketches, loft_profiles, loft_sections, lofts >>

\* The code strings of at most MaxLen characters.
Codes == UNION {[1..n -> Chars] : n \in 0..MaxLen}

Locals ==
  /\ m = 0 /\ p = 0 /\ t = 0 /\ y_lift = 0
  /\ k = 1
  /\ x_coords = <<>> /\ y_c = 0 /\ dyc_dx = 0
  /\ upper_points = <<>> /\ lower_points = <<>> /\ airfoil_coords = <<>>
  /\ error = "none"
  /\ scale_result = Float(0)
  /\ sketches = <<>> /\ loft_profiles = <<>> /\ loft_sections = <<>>
  /\ lofts = <<>>

Init ==
  /\ Locals
  /\ \/ /\ entry = "generate"
        /\ pc = "gen_decode"
        /\ naca \in Codes
        /\ num_points \in 0..MaxPoints
        /\ fraction = 0
     \/ /\ entry = "get_scale"
        /\ pc = "scale_call"
        /\ naca = <<>>
        /\ num_points = 0
        /\ fraction \in 0..MaxFraction
     \/ /\ entry = "run"
        /\ pc = "run_start"
        /\ naca = <<>>
        /\ num_points = 0
        /\ fraction = 0

\* Where an exception lands: run catches it and shows a message box.
Raised == IF entry = "run" THEN "run_failed" ELSE "gen_error"

\* ------------------------------------------------------------ generator steps

\* The length test and the three int() calls.
GenDecode ==
  /\ pc = "gen_decode"
  /\ LET d == Decode(naca)
     IN  IF d.kind = "ok"
         THEN /\ m' = d.m /\ p' = d.p /\ t' = d.t
              /\ pc' = "gen_lift"
              /\ error' = error
         ELSE /\ UNCHANGED << m, p, t >>
              /\ pc' = Raised
              /\ error' = d.kind
  /\ UNCHANGED << entry, naca, num_points, y_lift, k, x_coords, y_c, dyc_dx,
                  upper_points, lower_points, airfoil_coords, fraction,
                  scale_result, runVars >>

\* The reference point; then the sampling loop is entered or skipped.
GenLift ==
  /\ pc = "gen_lift"
  /\ y_lift' = LiftY(x_lift, m, p)
  /\ k' = 1
  /\ pc' = IF Len(range(num_points)) >= 1 THEN "gen_sample" ELSE "gen_concat"
  /\ UNCHANGED << entry, naca, num_points, m, p, t, x_coords, y_c, dyc_dx,
                  upper_points, lower_points, airfoil_coords, error, fraction,
                  scale_result, runVars >>

\* One pass of the loop that fills x_coords.
GenSample ==
  /\ pc = "gen_sample"
  /\ LET i == range(num_points)[k]
         x == SampleX(i, num_points)
     IN  IF x.kind = "float"
         THEN /\ x_coords' = Append(x_coords, x.val)
              /\ error' = error
              /\ IF k < Len(range(num_points))
                 THEN k' = k + 1 /\ pc' = "gen_sample"
                 ELSE k' = 1 /\ pc' = "gen_point"
         ELSE /\ x_coords' = x_coords
              /\ error' = x.kind
              /\ k' = k
              /\ pc' = Raised
  /\ UNCHANGED << entry, naca, num_points, m, p, t, y_lift, y_c, dyc_dx,
                  upper_points, lower_points, airfoil_coords, fraction,
                  scale_result, runVars >>

\* One pass of the loop over x_coords that fills both surfaces.
GenPoint ==
  /\ pc = "gen_point"
  /\ LET x == x_coords[k]
         c == Camber(x, m, p)
     IN  /\ y_c' = c.y_c
         /\ dyc_dx' = c.dyc_dx
         /\ upper_points' =
              Append(upper_points, UpperPoint(x, m, p, t, x_lift, y_lift))
         /\ lower_points' =
              Append(lower_points, LowerPoint(x, m, p, t, x_lift, y_lift))
  /\ IF k < Len(x_coords)
     THEN k' = k + 1 /\ pc' = "gen_point"
     ELSE k' = 1 /\ pc' = "gen_concat"
  /\ UNCHANGED << entry, naca, num_points, m, p, t, y_lift, x_coords,
                  airfoil_coords, error, fraction, scale_result, runVars >>

\* The contour is put together and returned.
GenConcat ==
  /\ pc = "gen_concat"
  /\ airfoil_coords' = Contour(upper_points, lower_points)
  /\ k' = 1
  /\ pc' = IF entry = "run" THEN "run_loop" ELSE "gen_done"
  /\ UNCHANGED << entry, naca, num_points, m, p, t, y_lift, x_coords, y_c,
                  dyc_dx, upper_points, lower_points, error, fraction,
                  scale_result, runVars >>

\* ------------------------------------------------------------ get_scale

GetScale ==
  /\ pc = "scale_call"
  /\ scale_result' = get_scale(fraction)
  /\ error' = IF scale_result'.kind = "float" THEN error ELSE scale_result'.kind
  /\ pc' = "scale_done"
  /\ UNCHANGED << entry, k, fraction, genVars, runVars >>

\* ------------------------------------------------------------ run steps

\* run up to its call of generate_naca_airfoil_coordinates("2412", 20).
RunStart ==
  /\ pc = "run_start"
  /\ naca' = run_naca
  /\ num_points' = run_num_points
  /\ pc' = "gen_decode"
  /\ UNCHANGED << entry, m, p, t, y_lift, k, x_coords, y_c, dyc_dx,
                  upper_points, lower_points, airfoil_coords, error, fraction,
                  scale_result, runVars >>

\* A pass of the station loop that hits `continue`.
RunSkip ==
  /\ pc = "run_loop"
  /\ Skipped(RunStations[k])
  /\ IF k < Len(RunStations)
     THEN k' = k + 1 /\ pc' = "run_loop"
     ELSE k' = 1 /\ pc' = "run_end"
  /\ UNCHANGED << entry, error, fraction, scale_result, genVars, runVars >>

\* A pass of the station loop that builds a section.
RunStation ==
  /\ pc = "run_loop"
  /\ ~Skipped(RunStations[k])
  /\ LET i  == RunStations[k]
         f  == IDiv(i * S, sketch_num)
         sc == get_scale(f)
     IN  /\ fraction' = f
         /\ scale_result' = sc
         /\ IF sc.kind = "float"
            THEN /\ sketches' =
                      Append(sketches,
                             CreateSketch(i, airfoil_coords, get_rotate_angle(f),
                                          sc.val, get_skew_angle(f), skew_r))
                 /\ loft_profiles' =
                      Append(loft_profiles,
                             [kind |-> "profile", sketch |-> Len(sketches) + 1])
                 /\ error' = error
                 /\ IF k < Len(RunStations)
                    THEN k' = k + 1 /\ pc' = "run_loop"
                    ELSE k' = 1 /\ pc' = "run_end"
            ELSE /\ sketches' = Append(sketches, EmptySketch("Airfoil Section", i))
                 /\ loft_profiles' = loft_profiles
                 /\ error' = sc.kind
                 /\ k' = k
                 /\ pc' = "run_failed"
  /\ UNCHANGED << entry, genVars, loft_sections, lofts >>

\* The end sketch and its tip point.
RunEnd ==
  /\ pc = "run_end"
  /\ sketches' =
       Append(sketches,
              [EmptySketch("Airfoil End", sketch_num) EXCEPT
                 !.points = <<EndPoint(skew_r)>>])
  /\ k' = 1
  /\ pc' = IF loft_profiles = <<>> THEN "run_loft_end" ELSE "run_loft"
  /\ UNCHANGED << entry, error, fraction, scale_result, genVars, loft_profiles,
                  loft_sections, lofts >>

\* One profile is added to the loft sections.
RunLoftAdd ==
  /\ pc = "run_loft"
  /\ loft_sections' = Append(loft_sections, loft_profiles[k])
  /\ IF k < Len(loft_profiles)
     THEN k' = k + 1 /\ pc' = "run_loft"
     ELSE k' = 1 /\ pc' = "run_loft_end"
  /\ UNCHANGED << entry, error, fraction, scale_result, genVars, sketches,
                  loft_profiles, lofts >>

\* The tip point is added as the last section and the loft is created.
RunLoftEnd ==
  /\ pc = "run_loft_end"
  /\ LET sections ==
           Append(loft_sections,
                  [kind |-> "point", sketch |-> Len(sketches),
                   tangent |-> IDiv(sketch_num * S, 2)])
     IN  /\ loft_sections' = sections
         /\ lofts' = Append(lofts, sections)
  /\ pc' = "run_done"
  /\ UNCHANGED << entry, k, error, fraction, scale_result, genVars, sketches,
                  loft_profiles >>

Next ==
  \/ GenDecode
  \/ GenLift
  \/ GenSample
  \/ GenPoint
  \/ GenConcat
  \/ GetScale
  \/ RunStart
  \/ RunSkip
  \/ RunStation
  \/ RunEnd
  \/ RunLoftAdd
  \/ RunLoftEnd

Spec == Init /\ [][Next]_vars

\* ------------------------------------------------------------ properties

\* A code of exactly four characters, each one of '0'..'9'.
ValidCode(c) == Len(c) = 4 /\ \A j \in 1..4 : c[j] \in Digits

\* A code of another length, or with a character that is no digit.
BadCode(c) == Len(c) # 4 \/ \E j \in 1..Len(c) : c[j] \notin Digits

\* generate_naca_airfoil_coordinates has returned its contour.
Returned ==
  \/ pc = "gen_done"
  \/ entry = "run" /\ pc \in {"run_loop", "run_end", "run_loft",
                              "run_loft_end", "run_done"}

\* The contour generator is running or has ended, past its decoding.
Decoded == pc \in {"gen_lift", "gen_sample", "gen_point", "gen_concat"} \/ Returned

Code0012 == <<"0", "0", "1", "2">>

\* C1: a code that is not 4 characters long, or that holds a character other
\* than '0'..'9' in any position, makes generate_naca_airfoil_coordinates fail
\* with the invalid-code error (ValueError) and return no contour: the call
\* never gets past its decoding.
C1_BadCodeRejected ==
  (entry = "generate" /\ BadCode(naca)) =>
    /\ pc \in {"gen_decode", "gen_error"}
    /\ pc = "gen_error" => error = "ValueError"
    /\ airfoil_coords = <<>>

\* C2: for a valid 4-digit code and num_points >= 2 the call raises nothing
\* and returns 2 * num_points points, num_points of the upper surface and
\* num_points of the lower surface.
C2_ContourLength ==
  (num_points >= 2 /\ ValidCode(naca)) =>
    /\ error = "none"
    /\ pc # "gen_error"
    /\ Returned =>
         /\ Len(airfoil_coords) = 2 * num_points
         /\ Len(upper_points) = num_points
         /\ Len(lower_points) = num_points

C2_Witness ==
  /\ pc = "gen_done"
  /\ ValidCode(naca)
  /\ num_points >= 3
  /\ Len(airfoil_coords) = 2 * num_points

\* C3: for a valid 4-digit code and num_points < 2 (0 and 1 in particular)
\* the call never raises.
C3_SmallNumPointsNeverRaise ==
  (entry = "generate" /\ ValidCode(naca) /\ num_points < 2) =>
    /\ error = "none"
    /\ pc # "gen_error"

\* C4: for a valid 4-digit code whose second digit is 0, whatever the first
\* digit, the camber y_c and the slope dyc_dx are 0 at every sample and the
\* reference point's y_lift is 0.
C4_ZeroCamberWhenPZero ==
  (ValidCode(naca) /\ naca[2] = "0" /\ Decoded) =>
    /\ y_lift = 0
    /\ y_c = 0
    /\ dyc_dx = 0

C6_EndsAtTrailingEdge ==
  (Returned /\ num_points >= 2 /\ ValidCode(naca)) =>
    LET n  == num_points
        te == {upper_points[n], lower_points[n]}
    IN  /\ x_coords[n] = S
        /\ airfoil_coords[1] \in te
        /\ airfoil_coords[2 * n] \in te

\* C6, amended: for a valid code and num_points >= 2 the first and the last
\* point of the contour are the upper and the lower point of the leading edge
\* sample (x = 0, so both have x = -x_lift); the two points of the trailing
\* edge sample (x = 1) are the two middle points of the contour.
C6_EndsAtLeadingEdge ==
  (Returned /\ num_points >= 2 /\ ValidCode(naca)) =>
    LET n == num_points
    IN  /\ x_coords[1] = 0
        /\ airfoil_coords[1] = upper_points[1]
        /\ airfoil_coords[2 * n] = lower_points[1]
        /\ airfoil_coords[1][1] = -x_lift
        /\ airfoil_coords[2 * n][1] = -x_lift
        /\ x_coords[n] = S
        /\ airfoil_coords[n] = upper_points[n]
        /\ airfoil_coords[n + 1] = lower_points[n]
        /\ airfoil_coords[1] \notin {upper_points[n], lower_points[n]}
        /\ airfoil_coords[2 * n] \notin {upper_points[n], lower_points[n]}

C6_Witness ==
  /\ pc = "gen_done"
  /\ ValidCode(naca)
  /\ num_points >= 2
  /\ airfoil_coords[1][1] = -x_lift
  /\ airfoil_coords[num_points][1] > 0

\* C7: for num_points = n >= 2 the contour is the upper points in sample
\* order, leading edge (x = 0) first and trailing edge (x = 1) last, followed
\* by the lower points in reverse sample order: contour[j] is the upper point
\* of sample j and contour[n + j] the lower point of sample n + 1 - j
\* (counting from 1); the first point is the re-centred leading edge.
C7_ContourOrder ==
  (Returned /\ num_points >= 2 /\ ValidCode(naca)) =>
    LET n == num_points
    IN  /\ Len(x_coords) = n
        /\ Len(airfoil_coords) = 2 * n
        /\ x_coords[1] = 0
        /\ x_coords[n] = S
        /\ \A j \in 1..(n - 1) : x_coords[j] < x_coords[j + 1]
        /\ \A j \in 1..n :
             /\ x_coords[j] = SampleX(j - 1, n).val
             /\ upper_points[j] = UpperPoint(x_coords[j], m, p, t, x_lift, y_lift)
             /\ lower_points[j] = LowerPoint(x_coords[j], m, p, t, x_lift, y_lift)
             /\ airfoil_coords[j] = upper_points[j]
             /\ airfoil_coords[n + j] = lower_points[n + 1 - j]
        /\ airfoil_coords[1] = <<-x_lift, Camber(0, m, p).y_c - y_lift>>

C7_Witness ==
  /\ pc = "gen_done"
  /\ ValidCode(naca)
  /\ num_points >= 3
  /\ airfoil_coords[num_points + 1] = lower_points[num_points]
  /\ airfoil_coords[num_points + 1] # lower_points[1]

\* C8: for the code "0012" and num_points >= 2 the camber is zero at every
\* sample and the contour is symmetric about y = 0: contour[j] and
\* contour[2n + 1 - j] have the same x and opposite y.
C8_Symmetric0012 ==
  (naca = Code0012 /\ num_points >= 2) =>
    /\ Decoded => (y_lift = 0 /\ y_c = 0 /\ dyc_dx = 0)
    /\ Returned =>
         \A j \in 1..(2 * num_points) :
           LET a == airfoil_coords[j]
               b == airfoil_coords[2 * num_points + 1 - j]
           IN  a[1] = b[1] /\ a[2] = -b[2]

C8_Witness ==
  /\ pc = "gen_done"
  /\ naca = Code0012
  /\ num_points >= 3
  /\ airfoil_coords[2][2] > 0
  /\ airfoil_coords[2 * num_points - 1][2] < 0

\* C9: get_scale returns exactly 1.2 at fraction 0.6 and exactly 0 at fraction
\* 1, and both pieces of its definition give 1.2 at fraction 0.6.
C9_ScalePeakAndEnd ==
  (entry = "get_scale" /\ pc = "scale_done") =>
    /\ fraction = max_scale_fraction =>
         /\ scale_result = Float(all_scale)
         /\ ScaleParabola(fraction) = all_scale
         /\ ScaleEllipse(fraction) = Float(all_scale)
    /\ fraction = S => scale_result = Float(0)

C9_Witness ==
  /\ entry = "get_scale"
  /\ pc = "scale_done"
  /\ fraction = max_scale_fraction
  /\ scale_result = Float(all_scale)

\* The fraction of station i.
StationFraction(i) == IDiv(i * S, sketch_num)

\* C10: run builds one section for each station 6 <= i < 50, once each and in
\* increasing order, placed with the angles and the scale of fraction i / 50,
\* which lies in [0, 1), so that get_scale never fails; the tip point is
\* created only after the last station, once; and the loft gets the 44
\* profiles in station order followed by the tip point as its last section.
C10_RunStations ==
  entry = "run" =>
    LET built == Len(loft_profiles)
        total == sketch_num - first_station
    IN  /\ error = "none"
        /\ pc # "run_failed"
        /\ built <= total
        /\ pc = "run_loop" => built = (IF k > first_station THEN k - 1 - first_station ELSE 0)
        /\ Len(sketches) \in {built, built + 1}
        /\ 0 <= fraction /\ fraction < S
        /\ \A j \in 1..built :
             LET i == first_station + j - 1
                 f == StationFraction(i)
             IN  /\ sketches[j].label = "Airfoil Section"
                 /\ sketches[j].index = i
                 /\ i < sketch_num
                 /\ 0 <= f /\ f < S
                 /\ f * sketch_num = i * S
                 /\ get_scale(f).kind = "float"
                 /\ sketches[j].moves[1].angle = get_rotate_angle(f)
                 /\ sketches[j].moves[2].angle = get_skew_angle(f)
                 /\ Len(sketches[j].spline) = 2 * run_num_points
                 /\ sketches[j].spline[1][1] = FMul(-x_lift, get_scale(f).val)
                 /\ loft_profiles[j] = [kind |-> "profile", sketch |-> j]
        /\ Len(sketches) = built + 1 =>
             /\ built = total
             /\ sketches[built + 1].label = "Airfoil End"
             /\ Len(sketches[built + 1].points) = 1
             /\ pc \in {"run_loft", "run_loft_end", "run_done"}
        /\ pc \in {"run_loft", "run_loft_end", "run_done"} =>
             Len(sketches) = total + 1
        /\ pc = "run_loft" => loft_sections = SubSeq(loft_profiles, 1, k - 1)
        /\ pc = "run_loft_end" => loft_sections = loft_profiles
        /\ pc = "run_done" =>
             /\ Len(loft_sections) = total + 1
             /\ SubSeq(loft_sections, 1, total) = loft_profiles
             /\ loft_sections[total + 1].kind = "point"
             /\ loft_sections[total + 1].sketch = total + 1
             /\ lofts = <<loft_sections>>
        /\ pc # "run_done" => lofts = <<>>

C10_Witness ==
  /\ entry = "run"
  /\ pc = "run_done"
  /\ Len(loft_sections) = 45
  /\ sketches[1].index = 6
  /\ sketches[44].index = 49
  /\ loft_sections[45].kind = "point"

=============================================================================
